---- MODULE Spec2Model ----
(***************************************************************************)
(* Theme / wallpaper state machine of meowrch: the persisted YAML document *)
(* (utils/config.py, class Config) and the in-process manager              *)
(* (utils/theming.py, class ThemeManager).                                 *)
(*                                                                         *)
(* Paths.  A wallpaper file is an abstract path identity p.  In the        *)
(* document a path is written as a string, and a path under the home       *)
(* directory has two spellings: "~/p" (<<"~", p>>, the spelling the        *)
(* manager writes) and the absolute one (<<"/", p>>).  Paths outside the   *)
(* home directory only have the absolute spelling.  Expansion maps both    *)
(* spellings to the same path.                                             *)
(*                                                                         *)
(* Document shapes.  In Config, a missing or null custom-wallpapers, a     *)
(* missing/null/empty themes mapping and a missing available_wallpapers    *)
(* key behave in every function exactly as the empty list / mapping; a     *)
(* null theme entry and a null available_wallpapers behave alike (skipped  *)
(* by get_all_themes and _remove_wallpaper_from_theme, replaced by a fresh *)
(* list by _add_wallpaper_to_theme).  The model keeps one flag "null" per  *)
(* theme entry for the latter and uses <<>> for the former.                *)
(***************************************************************************)
EXTENDS Integers, Sequences, FiniteSets

VARIABLES
    pc,             \* "uninit" | "ready" | "failed" | "crashed"
    session,        \* vars.SESSION_TYPE of this process
    disk,           \* set of wallpaper paths that exist on disk
    doc,            \* the persisted YAML document
    themes,         \* ThemeManager.themes: name -> available_wallpapers
    current_theme,  \* ThemeManager.current_theme (name of the aliased entry)
    last,           \* observation of the last handler that ran
    rt,             \* observation of an add / remove pair on one path
    steps,          \* number of handlers run on the manager
    sel,            \* one call of Selector._generate_rofi_list
    race,           \* two processes running Store setters on one document
    cp              \* one call of ThemeManager._copy_wallpaper_to_folder

vars == <<pc, session, disk, doc, themes, current_theme, last, rt, steps, sel, race, cp>>

----------------------------------------------------------------------------
(* Bounds *)

MaxAvail  == 1   \* longest available_wallpapers list of an initial document
MaxCustom == 1   \* longest custom-wallpapers list of an initial document
MaxOps    == 2   \* handlers run on one manager after construction
MaxStored == 2   \* longest list of a document handed to a bare Store call

----------------------------------------------------------------------------
(* Universe *)

Paths         == {"a", "b", "c"}
HomePaths     == {"a", "b"}      \* paths under Path.home()
WallpapersDir == {"a"}           \* paths inside MEOWRCH_DIR / "wallpapers"
ThemeNames    == {"dark", "light"}
UnknownTheme  == "ghost"         \* a name that is no key of the document
NoName        == "<None>"        \* Python None for a theme pointer
Sessions      == {"x11", "wayland"}

Tilde(p) == <<"~", p>>
Abs(p)   == <<"/", p>>
NoneStr  == <<"None", "">>

CfgStr == {Abs(p) : p \in Paths} \cup {Tilde(p) : p \in HomePaths}

\* Path(expandvars(s.strip())).expanduser(): both spellings name one path
Expand(s) == s[2]

\* str(path) of a resolved Path
Str(p) == Abs(p)

\* theming.py: the "~" notation used for config storage
ConfigPath(p) == IF p \in HomePaths THEN Tilde(p) ELSE Abs(p)

----------------------------------------------------------------------------
(* Sequences *)

Contains(s, x) == \E i \in 1..Len(s) : s[i] = x

FirstIndex(s, x) == CHOOSE i \in 1..Len(s) : s[i] = x /\ \A j \in 1..(i-1) : s[j] # x

\* list.remove(x) for x in the list: drops the first occurrence
ListRemove(s, x) ==
    LET k == FirstIndex(s, x)
    IN  [i \in 1..(Len(s) - 1) |-> IF i < k THEN s[i] ELSE s[i + 1]]

Range(s) == {s[i] : i \in 1..Len(s)}

Count(s, x) == Cardinality({i \in 1..Len(s) : s[i] = x})

SeqsUpTo(S, n) == UNION {[1..k -> S] : k \in 0..n}

\* lists without a repeated string: _add_wallpaper_to_theme never writes one
ListsUpTo(S, n) ==
    {l \in SeqsUpTo(S, n) : \A i, j \in 1..Len(l) : l[i] = l[j] => i = j}

----------------------------------------------------------------------------
(* Config: the document *)

\* other.parse_wallpapers: the listed strings as expanded paths
parse_wallpapers(l) == [i \in 1..Len(l) |-> Expand(l[i])]

ThemeEntry(name, null, avail) == [name |-> name, null |-> null, avail |-> avail]

DocNames(d) == {d.themes[i].name : i \in 1..Len(d.themes)}

DocIndex(d, name) == CHOOSE i \in 1..Len(d.themes) : d.themes[i].name = name

DocEntry(d, name) == d.themes[DocIndex(d, name)]

\* yaml.dump writes mapping keys sorted
NameRank(n) == IF n = "dark" THEN 1 ELSE 2

SortThemes(ts) ==
    [i \in 1..Len(ts) |->
        CHOOSE e \in Range(ts) :
            Cardinality({f \in Range(ts) : NameRank(f.name) < NameRank(e.name)}) = i - 1]

__dump_yaml(d) == [d EXCEPT !.themes = SortThemes(@)]

_validate_theme_NoFilter(wallpapers, dsk) == wallpapers

\* Config._validate_theme: None (<<>>) or the wallpapers that exist
_validate_theme(wallpapers, dsk) == SelectSeq(wallpapers, LAMBDA wp : wp \in dsk)

\* Config.get_all_themes on a loaded document: the list of Theme objects
RECURSIVE CatalogFrom(_, _, _)
CatalogFrom(d, dsk, i) ==
    IF i > Len(d.themes) THEN <<>>
    ELSE LET e    == d.themes[i]
             wps  == _validate_theme(parse_wallpapers(d.custom) \o parse_wallpapers(e.avail), dsk)
             rest == CatalogFrom(d, dsk, i + 1)
         IN  IF e.null \/ Len(wps) = 0
             THEN rest
             ELSE <<[name |-> e.name, available_wallpapers |-> wps]>> \o rest

get_all_themes(d, dsk) == CatalogFrom(d, dsk, 1)

\* Config.get_current_xtheme / get_current_wtheme
get_current_xtheme(d) == d.xtheme
get_current_wtheme(d) == d.wtheme

\* Config.get_current_wallpaper on a loaded document: [val, exc]
get_current_wallpaper(d, ses) ==
    IF ses \notin {"x11", "wayland"}
    THEN [val |-> NoneStr, exc |-> "InvalidSession"]
    ELSE LET w == IF ses = "x11" THEN d.xwall ELSE d.wwall
         IN  [val |-> IF w = NoneStr THEN NoneStr ELSE Str(Expand(w)), exc |-> "none"]

\* Config._set_theme on a loaded document: [doc, wrote, exc]
_set_theme(d, ses, name) ==
    IF ses = "x11"
    THEN [doc |-> __dump_yaml([d EXCEPT !.xtheme = name]), wrote |-> TRUE, exc |-> "none"]
    ELSE IF ses = "wayland"
    THEN [doc |-> __dump_yaml([d EXCEPT !.wtheme = name]), wrote |-> TRUE, exc |-> "none"]
    ELSE [doc |-> d, wrote |-> FALSE, exc |-> "InvalidSession"]

\* a setter that writes the pointer of both sessions
_set_wallpaper_Both(d, ses, p) ==
    IF ses \in {"x11", "wayland"}
    THEN [doc |-> __dump_yaml([d EXCEPT !.xwall = Str(p), !.wwall = Str(p)]),
          wrote |-> TRUE, exc |-> "none"]
    ELSE [doc |-> d, wrote |-> FALSE, exc |-> "InvalidSession"]

\* Config._set_wallpaper on a loaded document: [doc, wrote, exc]
_set_wallpaper(d, ses, p) ==
    IF ses = "x11"
    THEN [doc |-> __dump_yaml([d EXCEPT !.xwall = Str(p)]), wrote |-> TRUE, exc |-> "none"]
    ELSE IF ses = "wayland"
    THEN [doc |-> __dump_yaml([d EXCEPT !.wwall = Str(p)]), wrote |-> TRUE, exc |-> "none"]
    ELSE [doc |-> d, wrote |-> FALSE, exc |-> "InvalidSession"]

\* Config._add_wallpaper_to_theme on a loaded document:
\* [doc, wrote, exc]
_add_wallpaper_to_theme(d, name, s) ==
    IF name \notin DocNames(d)
    THEN [doc |-> d, wrote |-> FALSE, exc |-> "ValueError"]
    ELSE LET k == DocIndex(d, name)
             e == d.themes[k]
         IN  IF Contains(e.avail, s)
             THEN [doc |-> d, wrote |-> FALSE, exc |-> "none"]
             ELSE [doc   |-> __dump_yaml([d EXCEPT !.themes[k] =
                                 ThemeEntry(name, FALSE, Append(e.avail, s))]),
                   wrote |-> TRUE, exc |-> "none"]

_remove_wallpaper_from_theme_CustomOnly(d, name, s) ==
    IF Contains(d.custom, s)
    THEN [doc |-> __dump_yaml([d EXCEPT !.custom = ListRemove(@, s)]),
          wrote |-> TRUE, exc |-> "none"]
    ELSE [doc |-> d, wrote |-> FALSE, exc |-> "none"]

_remove_wallpaper_from_theme_ThemeOnly(d, name, s) ==
    IF name \in DocNames(d) /\ ~DocEntry(d, name).null /\ Contains(DocEntry(d, name).avail, s)
    THEN [doc |-> __dump_yaml([d EXCEPT !.themes[DocIndex(d, name)].avail = ListRemove(@, s)]),
          wrote |-> TRUE, exc |-> "none"]
    ELSE [doc |-> d, wrote |-> FALSE, exc |-> "none"]

\* Config._remove_wallpaper_from_theme on a loaded document:
\* [doc, wrote, exc]
_remove_wallpaper_from_theme(d, name, s) ==
    LET inTheme  == /\ name \in DocNames(d)
                    /\ ~DocEntry(d, name).null
                    /\ Contains(DocEntry(d, name).avail, s)
        d1       == IF inTheme
                    THEN [d EXCEPT !.themes[DocIndex(d, name)].avail = ListRemove(@, s)]
                    ELSE d
        inCustom == Contains(d1.custom, s)
        d2       == IF inCustom THEN [d1 EXCEPT !.custom = ListRemove(@, s)] ELSE d1
    IN  IF inTheme \/ inCustom
        THEN [doc |-> __dump_yaml(d2), wrote |-> TRUE, exc |-> "none"]
        ELSE [doc |-> d, wrote |-> FALSE, exc |-> "none"]

----------------------------------------------------------------------------
(* Handlers run on a machine record                                        *)
(*   m = [themes, cur, doc, disk, trace, n, exc, ret]                      *)
(* threaded through the calls of one handler: trace lists the external     *)
(* effects in the order the code performs them, n counts the Store calls   *)
(* made so far and exc is the exception in flight ("none" when the call    *)
(* returned).  The environment of one handler run is an oracle record      *)
(*   o = [failAt, toolOk, q1, q2, linkOk, pick, tpick, optFail]            *)
(* failAt = k makes the k-th Store call of the handler raise NoConfigFile  *)
(* (the document file is gone), 0 makes none fail.                         *)

\* loader.theme_options: the registered theme option appliers, in order
theme_options == <<"opt1", "opt2">>

Ev(e, a, ok) == [e |-> e, a |-> a, ok |-> ok]

Log(m, e, a, ok) == [m EXCEPT !.trace = Append(@, Ev(e, a, ok))]

Raise(m, x) == [m EXCEPT !.exc = x]

Return(m, r) == [m EXCEPT !.ret = r]

\* Config.__load_yaml at the head of the Store call "who"
__load_yaml(m, o, who) ==
    LET k == m.n + 1
    IN  [m EXCEPT !.n = k,
                  !.exc = IF k = o.failAt THEN "NoConfigFile" ELSE "none",
                  !.trace = Append(@, Ev("load", who, k # o.failAt))]

\* the document as written by a Store call that dumped
Written(m, r) ==
    IF r.exc # "none" THEN Raise(m, r.exc)
    ELSE IF r.wrote THEN Log([m EXCEPT !.doc = r.doc], "dump", "", TRUE)
    ELSE m

\* Config._set_theme
Config_set_theme(m, o, name) ==
    LET l == __load_yaml(m, o, "_set_theme")
    IN  IF l.exc # "none" THEN l ELSE Written(l, _set_theme(l.doc, session, name))

\* Config._set_wallpaper: load, symlink (failure logged only), dump
Config_set_wallpaper(m, o, p) ==
    LET l == __load_yaml(m, o, "_set_wallpaper")
        r == _set_wallpaper(l.doc, session, p)
    IN  IF l.exc # "none" THEN l
        ELSE IF r.exc # "none" THEN Raise(l, r.exc)
        ELSE Written(Log(l, "ln", p, o.linkOk), r)

\* Config._remove_wallpaper_from_theme
Config_remove_wallpaper_from_theme(m, o, name, s) ==
    LET l == __load_yaml(m, o, "_remove_wallpaper_from_theme")
    IN  IF l.exc # "none" THEN l
        ELSE Written(l, _remove_wallpaper_from_theme(l.doc, name, s))

PersistAfterTool_Always(m, o, p, ok) == Config_set_wallpaper(m, o, p)

\* ThemeManager.set_wallpaper, lines 334-336 and 341-343, 348: a failed tool
\* returns before the pointer is persisted
PersistAfterTool(m, o, p, ok) == IF ok THEN Config_set_wallpaper(m, o, p) ELSE m

\* ThemeManager.set_wallpaper
set_wallpaper(m, o, p) ==
    IF session = "wayland"
    THEN LET m1 == Log(Log(m, "wlr-randr", "", o.q1), "hyprctl", "", o.q2)
             m2 == Log(m1, "swww", p, o.toolOk)
         IN  PersistAfterTool(m2, o, p, o.toolOk)
    ELSE IF session = "x11"
    THEN LET m2 == Log(m, "feh", p, o.toolOk)
         IN  PersistAfterTool(m2, o, p, o.toolOk)
    ELSE m

Choice_Any(l, k) == k

\* random.choice over a non-empty list, the element drawn by the oracle
Choice(l, k) == IF Contains(l, k) THEN k ELSE l[1]

\* ThemeManager.set_random_wallpaper
set_random_wallpaper(m, o) ==
    LET l  == m.themes[m.cur]
        m1 == Log(m, "set_random_wallpaper", m.cur, TRUE)
    IN  IF Len(l) = 0 THEN Raise(m1, "IndexError")
        ELSE set_wallpaper(m1, o, Choice(l, o.pick))

\* the appliers up to the first one that fails
ApplyOptions_FailFast(m, o) ==
    LET all == [i \in 1..Len(theme_options) |->
                   Ev("apply", theme_options[i], theme_options[i] \notin o.optFail)]
        bad == {i \in 1..Len(all) : ~all[i].ok}
        n   == IF bad = {} THEN Len(all) ELSE CHOOSE i \in bad : \A j \in bad : i <= j
    IN  [m EXCEPT !.trace = @ \o SubSeq(all, 1, n)]

\* ThemeManager.set_theme, lines 65-69: every applier is tried, a failure is
\* logged
ApplyOptions(m, o) ==
    [m EXCEPT !.trace = @ \o
        [i \in 1..Len(theme_options) |->
            Ev("apply", theme_options[i], theme_options[i] \notin o.optFail)]]

\* ThemeManager.set_theme, lines 63-83: the theme is a catalog entry
ApplyTheme(m, o, name) ==
    LET m1 == [ApplyOptions(m, o) EXCEPT !.cur = name]
        m2 == Config_set_theme(m1, o, name)
        m3 == __load_yaml(m2, o, "get_current_wallpaper")
        cw == get_current_wallpaper(m3.doc, session)
    IN  IF m2.exc # "none" THEN m2
        ELSE IF m3.exc # "none" THEN m3
        ELSE IF cw.exc # "none" THEN Raise(m3, cw.exc)
        ELSE IF cw.val = NoneStr \/ Expand(cw.val) \notin m3.disk
        THEN set_random_wallpaper(m3, o)
        ELSE IF cw.val \notin {Str(m3.themes[name][i]) : i \in 1..Len(m3.themes[name])}
        THEN set_random_wallpaper(m3, o)
        ELSE m3

\* ThemeManager.set_theme called with a name: an unknown name reaches
\* theme.name on a str (line 55)
set_theme(m, o, theme) ==
    IF theme \notin DOMAIN m.themes
    THEN Raise(m, "AttributeError")
    ELSE ApplyTheme(m, o, theme)

\* ThemeManager.set_random_theme
set_random_theme(m, o) ==
    IF DOMAIN m.themes = {}
    THEN Raise(Log(m, "notify", "Critical error!", TRUE), "NoThemesToInstall")
    ELSE set_theme(m, o, IF o.tpick \in DOMAIN m.themes THEN o.tpick
                         ELSE CHOOSE t \in DOMAIN m.themes : TRUE)

NoThemes_Never(cat) == FALSE

\* ThemeManager.__init__, line 26: the catalog is empty
NoThemes(cat) == Len(cat) < 1

\* ThemeManager.__init__ (m carries the document and the disk)
__init__(m, o) ==
    LET l0  == __load_yaml(m, o, "get_all_themes")
        cat == get_all_themes(l0.doc, l0.disk)
        m1  == [l0 EXCEPT !.themes =
                   [t \in {cat[i].name : i \in 1..Len(cat)} |->
                       (CHOOSE e \in Range(cat) : e.name = t).available_wallpapers]]
        m2  == __load_yaml(m1, o, "get_current_theme")
        cur_theme == IF session = "x11" THEN get_current_xtheme(m2.doc)
                                       ELSE get_current_wtheme(m2.doc)
        m3  == __load_yaml([m2 EXCEPT !.cur = cur_theme], o, "get_current_wallpaper")
        w   == get_current_wallpaper(m3.doc, session)
    IN  IF l0.exc # "none" THEN l0
        ELSE IF NoThemes(cat) THEN Raise(m1, "NoThemesToInstall")
        ELSE IF session \notin {"x11", "wayland"} THEN Raise(m1, "InvalidSession")
        ELSE IF m2.exc # "none" THEN m2
        ELSE IF cur_theme \in DOMAIN m2.themes
        THEN IF m3.exc # "none" THEN m3
             ELSE IF w.val = NoneStr \/ Expand(w.val) \notin m3.disk
             THEN set_random_wallpaper(m3, o)
             ELSE m3
        ELSE set_random_theme(m2, o)

AlreadyInTheme_Never(l, p) == FALSE

\* ThemeManager.add_wallpaper_to_theme, line 150: the wallpaper is in the theme
AlreadyInTheme(l, p) == Contains(l, p)

AddRollback_NoUndo(m, p, theme_name) == Return([m EXCEPT !.exc = "none"], "False")

\* ThemeManager.add_wallpaper_to_theme, lines 174-179: the rollback
AddRollback(m, p, theme_name) ==
    Return([m EXCEPT !.themes[theme_name] = ListRemove(@, p), !.exc = "none"], "False")

\* ThemeManager.add_wallpaper_to_theme (every model path has an image suffix)
add_wallpaper_to_theme(m, o, p, theme_name) ==
    IF p \notin m.disk THEN Return(m, "False")
    ELSE IF theme_name \notin DOMAIN m.themes THEN Return(m, "False")
    ELSE IF AlreadyInTheme(m.themes[theme_name], p) THEN Return(m, "True")
    ELSE LET m1 == [m EXCEPT !.themes[theme_name] = Append(@, p)]
             l  == __load_yaml(m1, o, "_add_wallpaper_to_theme")
             m2 == Written(l, _add_wallpaper_to_theme(l.doc, theme_name, ConfigPath(p)))
         IN  IF l.exc # "none" \/ m2.exc # "none"
             THEN AddRollback(l, p, theme_name)
             ELSE Return(m2, "True")

IsLastWallpaper_OffByOne(l) == Len(l) < 1

\* ThemeManager.remove_wallpaper_from_theme, line 214: the last-wallpaper guard
IsLastWallpaper(l) == Len(l) <= 1

\* ThemeManager.remove_wallpaper_from_theme, lines 253-258: the rollback
RemoveRollback(m, p, theme_name) ==
    Return([m EXCEPT !.themes[theme_name] = Append(@, p), !.exc = "none"], "False")

\* ThemeManager.remove_wallpaper_from_theme
remove_wallpaper_from_theme(m, o, p, theme_name) ==
    IF theme_name \notin DOMAIN m.themes THEN Return(m, "False")
    ELSE IF ~Contains(m.themes[theme_name], p) THEN Return(m, "False")
    ELSE IF IsLastWallpaper(m.themes[theme_name]) THEN Return(m, "False")
    ELSE LET m1 == [m EXCEPT !.themes[theme_name] = ListRemove(@, p)]
             m2 == Config_remove_wallpaper_from_theme(m1, o, theme_name, ConfigPath(p))
             m3 == __load_yaml(m2, o, "get_current_wallpaper")
             cw == get_current_wallpaper(m3.doc, session)
             m4 == IF cw.val # NoneStr /\ Expand(cw.val) = p
                   THEN set_random_wallpaper(m3, o)
                   ELSE m3
         IN  IF m2.exc # "none" THEN RemoveRollback(m2, p, theme_name)
             ELSE IF m3.exc # "none" THEN RemoveRollback(m3, p, theme_name)
             ELSE IF cw.exc # "none" THEN RemoveRollback(m3, p, theme_name)
             ELSE IF m4.exc # "none" THEN RemoveRollback(m4, p, theme_name)
             ELSE Return(m4, "True")

\* ThemeManager._handle_add_wallpaper: the chosen file is copied to a free
\* name dest of the wallpapers folder, added to the current theme and set
_handle_add_wallpaper(m, o, dest) ==
    LET m1 == Log([m EXCEPT !.disk = @ \cup {dest}], "copy", dest, TRUE)
        m2 == add_wallpaper_to_theme(m1, o, dest, m1.cur)
    IN  IF m2.ret = "True" THEN Return(set_wallpaper(m2, o, dest), "None")
        ELSE Return(m2, "None")

----------------------------------------------------------------------------
(* The manager process *)

Oracle(failAt, toolOk, q1, q2, linkOk, pick, tpick, optFail) ==
    [failAt |-> failAt, toolOk |-> toolOk, q1 |-> q1, q2 |-> q2, linkOk |-> linkOk,
     pick |-> pick, tpick |-> tpick, optFail |-> optFail]

\* outcomes of the wlr-randr / hyprctl queries, only made on wayland
Query == IF session = "wayland" THEN BOOLEAN ELSE {TRUE}

Machine ==
    [themes |-> themes, cur |-> current_theme, doc |-> doc, disk |-> disk,
     trace |-> <<>>, n |-> 0, exc |-> "none", ret |-> "None"]

Snapshot == [themes |-> themes, cur |-> current_theme, doc |-> doc, disk |-> disk]

NoRT == [stage |-> "none", theme |-> "", path |-> "", ret |-> "", pre |-> <<>>]

\* strings of the documents handed to a bare Store call
StoredStr == {Tilde("a"), Abs("a"), Abs("c")}

\* the state after a handler that ran to m
Commit(m, op, a1, a2, returned, crashed) ==
    /\ themes' = m.themes
    /\ current_theme' = m.cur
    /\ doc' = m.doc
    /\ disk' = m.disk
    /\ pc' = IF m.exc # "none" THEN crashed ELSE returned
    /\ last' = [op |-> op, a1 |-> a1, a2 |-> a2, ret |-> m.ret, exc |-> m.exc,
                trace |-> m.trace, pre |-> Snapshot]
    /\ UNCHANGED <<session, sel, race, cp>>

\* an add of a path the theme did not hold, that returned True
Added(m, p, t) ==
    /\ m.ret = "True" /\ m.exc = "none"
    /\ t \in DOMAIN themes
    /\ ~Contains(themes[t], p)

\* environments explored: a vanished document file is combined with no other
\* failure of the same handler run
StoreFailureAlone(failAt, toolOk, pick, optFail) ==
    failAt > 0 => (toolOk /\ optFail = {} /\ pick = "a")

Construct ==
    /\ pc = "uninit"
    /\ \E failAt \in 0..5, toolOk \in BOOLEAN, pick \in Paths, tpick \in ThemeNames :
         /\ StoreFailureAlone(failAt, toolOk, pick, {})
         /\ failAt > 0 => tpick = "dark"
         /\ Commit(__init__(Machine, Oracle(failAt, toolOk, TRUE, TRUE, TRUE, pick, tpick, {})),
                "__init__", "", "", "ready", "failed")
    /\ UNCHANGED <<rt, steps>>

SetTheme ==
    /\ pc = "ready" /\ steps < MaxOps
    /\ \E t \in ThemeNames \cup {UnknownTheme}, failAt \in 0..3, toolOk \in BOOLEAN,
          pick \in Paths, optFail \in SUBSET Range(theme_options) :
         /\ StoreFailureAlone(failAt, toolOk, pick, optFail)
         /\ Commit(set_theme(Machine, Oracle(failAt, toolOk, TRUE, TRUE, TRUE, pick, t, optFail), t),
                "set_theme", t, "", "ready", "crashed")
    /\ rt' = NoRT
    /\ steps' = steps + 1

SetWallpaper ==
    /\ pc = "ready" /\ steps < MaxOps
    /\ \E p \in Paths, failAt \in 0..1, toolOk \in BOOLEAN,
          q1 \in Query, q2 \in Query, linkOk \in BOOLEAN :
         /\ ~toolOk => (failAt = 0 /\ linkOk)
         /\ failAt > 0 => (linkOk /\ q1 /\ q2)
         /\ Commit(set_wallpaper(Machine, Oracle(failAt, toolOk, q1, q2, linkOk, p, "", {}), p),
                "set_wallpaper", p, "", "ready", "crashed")
    /\ rt' = NoRT
    /\ steps' = steps + 1

AddWallpaper ==
    /\ pc = "ready" /\ steps < MaxOps
    /\ \E p \in Paths, t \in ThemeNames \cup {UnknownTheme}, failAt \in 0..1 :
         LET m == add_wallpaper_to_theme(Machine,
                      Oracle(failAt, TRUE, TRUE, TRUE, TRUE, p, "", {}), p, t)
         IN  /\ Commit(m, "add_wallpaper_to_theme", p, t, "ready", "crashed")
             /\ rt' = IF Added(m, p, t)
                      THEN [stage |-> "added", theme |-> t, path |-> p, ret |-> "",
                            pre |-> Snapshot]
                      ELSE NoRT
    /\ steps' = steps + 1

RemoveWallpaper ==
    /\ pc = "ready" /\ steps < MaxOps
    /\ \E p \in Paths, t \in ThemeNames \cup {UnknownTheme}, failAt \in 0..3,
          toolOk \in BOOLEAN, pick \in Paths :
         LET m == remove_wallpaper_from_theme(Machine,
                      Oracle(failAt, toolOk, TRUE, TRUE, TRUE, pick, "", {}), p, t)
         IN  /\ StoreFailureAlone(failAt, toolOk, pick, {})
             /\ Commit(m, "remove_wallpaper_from_theme", p, t, "ready", "crashed")
             /\ rt' = IF rt.stage = "added" /\ rt.theme = t /\ rt.path = p
                      THEN [rt EXCEPT !.stage = "removed", !.ret = m.ret]
                      ELSE NoRT
    /\ steps' = steps + 1

HandleAddWallpaper ==
    /\ pc = "ready" /\ steps < MaxOps
    /\ \E dest \in WallpapersDir \ disk, failAt \in 0..2, toolOk \in BOOLEAN :
         LET o  == Oracle(failAt, toolOk, TRUE, TRUE, TRUE, dest, "", {})
             m  == _handle_add_wallpaper(Machine, o, dest)
             ma == add_wallpaper_to_theme([Machine EXCEPT !.disk = @ \cup {dest}],
                                          o, dest, current_theme)
         IN  /\ Commit(m, "_handle_add_wallpaper", dest, current_theme, "ready", "crashed")
             /\ rt' = IF Added(ma, dest, current_theme)
                      THEN [stage |-> "added", theme |-> current_theme, path |-> dest,
                            ret |-> "", pre |-> Snapshot]
                      ELSE NoRT
    /\ steps' = steps + 1

\* a caller of the Store alone: Config._remove_wallpaper_from_theme
StoreRemove ==
    /\ pc = "store" /\ steps < MaxOps
    /\ \E name \in ThemeNames \cup {UnknownTheme}, s \in StoredStr \cup {Tilde("b")},
          failAt \in 0..1 :
         Commit(Config_remove_wallpaper_from_theme(Machine,
                    Oracle(failAt, TRUE, TRUE, TRUE, TRUE, "", "", {}), name, s),
                "Config._remove_wallpaper_from_theme", name, s, "store", "store")
    /\ rt' = NoRT
    /\ steps' = steps + 1

Next ==
    \/ Construct
    \/ SetTheme
    \/ SetWallpaper
    \/ AddWallpaper
    \/ RemoveWallpaper
    \/ HandleAddWallpaper

----------------------------------------------------------------------------
(* Initial documents *)

Doc(xtheme, wtheme, xwall, wwall, custom, ts) ==
    [xtheme |-> xtheme, wtheme |-> wtheme, xwall |-> xwall, wwall |-> wwall,
     custom |-> custom, themes |-> ts]

NoLast ==
    [op |-> "", a1 |-> "", a2 |-> "", ret |-> "None", exc |-> "none", trace |-> <<>>,
     pre |-> <<>>]

\* custom-wallpapers lists a user may have written
CustomLists == ListsUpTo({Tilde("b"), Abs("c")}, MaxCustom)

\* lists a user or the manager may have written for a theme
AvailLists == ListsUpTo({Tilde("a"), Abs("b"), Abs("c")}, MaxAvail)

\* no selector call, no second process and no copy in this process
Idle == [pc |-> "idle"]

InitCommon ==
    /\ themes = <<>>
    /\ current_theme = NoName
    /\ last = NoLast
    /\ rt = NoRT
    /\ steps = 0

InitManager ==
    /\ InitCommon
    /\ sel = Idle /\ race = Idle /\ cp = Idle

\* a process started on a document whose pointers name the theme "dark"
Init ==
    /\ InitManager
    /\ pc = "uninit"
    /\ session \in Sessions
    /\ disk \in {Paths, Paths \ WallpapersDir}
    /\ \E custom \in CustomLists, dark \in AvailLists,
          light \in {<<Abs("c")>>}, lnull \in {FALSE}, w \in {Abs("b")} :
         /\ doc = Doc(IF session = "x11" THEN "dark" ELSE "light",
                      IF session = "wayland" THEN "dark" ELSE "light",
                      IF session = "x11" THEN w ELSE Abs("c"),
                      IF session = "wayland" THEN w ELSE Abs("c"),
                      custom,
                      <<ThemeEntry("light", lnull, light), ThemeEntry("dark", FALSE, dark)>>)

Spec == Init /\ [][Next]_vars

\* construction alone, on documents of every shape: null entries, missing
\* files, dangling pointers, an unrecognized session
InitBuild ==
    /\ InitManager
    /\ pc = "uninit"
    /\ session \in Sessions \cup {"tty"}
    /\ disk \in SUBSET Paths
    /\ \E custom \in CustomLists, dark \in AvailLists,
          light \in AvailLists, dnull \in BOOLEAN, lnull \in BOOLEAN,
          t \in {"dark", UnknownTheme, NoName}, w \in {NoneStr, Tilde("a"), Abs("b")} :
         /\ dnull => dark = <<>>
         /\ lnull => light = <<>>
         /\ doc = Doc(t, t, w, w, custom,
                      <<ThemeEntry("light", lnull, light), ThemeEntry("dark", dnull, dark)>>)

NextBuild == Construct

SpecBuild == InitBuild /\ [][NextBuild]_vars

\* bare Store calls on documents of every shape
StoredLists == ListsUpTo(StoredStr, MaxStored)

InitStore ==
    /\ InitManager
    /\ pc = "store"
    /\ session \in Sessions
    /\ disk = Paths
    /\ \E custom \in StoredLists, dark \in StoredLists, light \in {<<>>, <<Abs("c")>>},
          lnull \in BOOLEAN, declared \in BOOLEAN :
         /\ lnull => light = <<>>
         /\ doc = Doc("dark", "light", Abs("c"), Abs("a"), custom,
                      <<ThemeEntry("light", lnull, light)>> \o
                      (IF declared THEN <<ThemeEntry("dark", FALSE, dark)>> ELSE <<>>))

NextStore == StoreRemove

SpecStore == InitStore /\ [][NextStore]_vars

----------------------------------------------------------------------------
(* Selector._generate_rofi_list: one call, with the thumbnail tasks of the *)
(* pool as interleaved steps.  An element is [name, icon]; a thumbnail     *)
(* file cache_dir / "<stem>.png" is identified by its stem.  Every icon    *)
(* that is a file is an image PIL can open.                                *)

MaxElems == 3     \* longest elements dictionary

\* mp.Pool(processes=4)
PoolSize == 4

\* icon paths; two of them differ by their extension only
Icons == {"s.png", "s.jpg", "t.png"}

\* Path.stem
Stem(icon) == IF icon \in {"s.png", "s.jpg"} THEN "s" ELSE "t"

\* cache_dir / f"{icon.stem}.png"
Thumbnail(icon) == Stem(icon)

\* dictionaries of at most n elements, the labels being the positions
ElementsUpTo(n) ==
    {[k \in 1..Len(l) |-> [name |-> k, icon |-> l[k]]] : l \in SeqsUpTo(Icons, n)}

\* lines 61-65: the icons that are files, in dictionary order
image_paths(elements, files) ==
    LET fs == SelectSeq(elements, LAMBDA e : e.icon \in files)
    IN  [i \in 1..Len(fs) |-> fs[i].icon]

\* lines 61-65: their thumbnails
thumbnails(elements, files) ==
    LET ips == image_paths(elements, files)
    IN  [i \in 1..Len(ips) |-> Thumbnail(ips[i])]

Min(a, b) == IF a < b THEN a ELSE b

\* lines 70-72: zip(elements.keys(), elements.values(), thumbnails), the
\* thumbnails that are files
RofiEntries(elements, thumbs, cache) ==
    LET n   == Min(Len(elements), Len(thumbs))
        zip == [k \in 1..n |-> [name |-> elements[k].name, thumb |-> thumbs[k]]]
    IN  SelectSeq(zip, LAMBDA z : z.thumb \in cache)

\* line 56: the synthetic first entry
RandomEntry == [name |-> 0, thumb |-> "random"]

\* lines 55-65
Collect ==
    /\ sel.pc = "start"
    /\ sel' = [sel EXCEPT !.pc = "pool",
                          !.image_paths = image_paths(sel.elements, sel.files),
                          !.thumbnails = thumbnails(sel.elements, sel.files),
                          !.task = [i \in 1..Len(image_paths(sel.elements, sel.files))
                                       |-> "queued"]]
    /\ UNCHANGED <<pc, session, disk, doc, themes, current_theme, last, rt, steps, race, cp>>

\* tasks between the exists() test and the save
InFlight == Cardinality({i \in DOMAIN sel.task : sel.task[i] = "saving"})

\* a free worker takes the next task of the batch: _create_thumbnail,
\* lines 26-27
TaskStart ==
    /\ sel.pc = "pool"
    /\ InFlight < PoolSize
    /\ \E i \in DOMAIN sel.task :
         /\ sel.task[i] = "queued"
         /\ \A j \in 1..(i - 1) : sel.task[j] # "queued"
         /\ sel' = [sel EXCEPT !.task[i] = IF sel.thumbnails[i] \in sel.cache
                                           THEN "done" ELSE "saving"]
    /\ UNCHANGED <<pc, session, disk, doc, themes, current_theme, last, rt, steps, race, cp>>

\* _create_thumbnail, lines 29-45: the thumbnail file is written
TaskSave ==
    /\ sel.pc = "pool"
    /\ \E i \in DOMAIN sel.task :
         /\ sel.task[i] = "saving"
         /\ sel' = [sel EXCEPT !.task[i] = "done",
                               !.cache = @ \cup {sel.thumbnails[i]},
                               !.writes = Append(@, [task |-> i, file |-> sel.thumbnails[i]])]
    /\ UNCHANGED <<pc, session, disk, doc, themes, current_theme, last, rt, steps, race, cp>>

\* the pool has joined: lines 70-74
ZipList ==
    /\ sel.pc = "pool"
    /\ \A i \in DOMAIN sel.task : sel.task[i] = "done"
    /\ sel' = [sel EXCEPT !.pc = "done",
                          !.rofi_list = <<RandomEntry>> \o
                              RofiEntries(sel.elements, sel.thumbnails, sel.cache)]
    /\ UNCHANGED <<pc, session, disk, doc, themes, current_theme, last, rt, steps, race, cp>>

InitRofi ==
    /\ InitCommon
    /\ pc = "selector"
    /\ session = "x11"
    /\ disk = {}
    /\ doc = Doc(NoName, NoName, NoneStr, NoneStr, <<>>, <<>>)
    /\ race = Idle /\ cp = Idle
    /\ \E elements \in ElementsUpTo(MaxElems), files \in SUBSET Icons,
          cache \in SUBSET {Thumbnail(i) : i \in Icons} :
         sel = [pc |-> "start", elements |-> elements, files |-> files, cache |-> cache,
                image_paths |-> <<>>, thumbnails |-> <<>>, task |-> <<>>,
                writes |-> <<>>, rofi_list |-> <<>>]

NextRofi ==
    \/ Collect
    \/ TaskStart
    \/ TaskSave
    \/ ZipList

SpecRofi == InitRofi /\ [][NextRofi]_vars

----------------------------------------------------------------------------
(* Two processes on one document.  Each runs one Store setter: it loads    *)
(* the whole document (__load_yaml), changes its own copy and writes the   *)
(* copy back (__dump_yaml).  The load and the dump are separate steps of   *)
(* the process; nothing orders the steps of the two processes.             *)

Procs == {1, 2}

\* the setter calls a process may make
SetterCalls ==
    {[f |-> "_set_theme", a |-> n, b |-> ""] : n \in ThemeNames}
    \cup {[f |-> "_set_wallpaper", a |-> p, b |-> ""] : p \in Paths}
    \cup {[f |-> "_add_wallpaper_to_theme", a |-> n, b |-> s] :
             n \in ThemeNames, s \in {Tilde("a"), Abs("c")}}

\* the setter c on the loaded document d: [doc, wrote, exc]
Setter(c, d) ==
    IF c.f = "_set_theme" THEN _set_theme(d, session, c.a)
    ELSE IF c.f = "_set_wallpaper" THEN _set_wallpaper(d, session, c.a)
    ELSE _add_wallpaper_to_theme(d, c.a, c.b)

Held_Fresh(data, current) == current

\* the data a setter dumps is the dictionary it loaded, whatever the file
\* holds by now
Held(data, current) == data

\* __load_yaml of process i
RaceLoad ==
    /\ race.pc = "run"
    /\ \E i \in Procs, c \in SetterCalls :
         /\ race.p[i].pc = "start"
         /\ race' = [race EXCEPT !.p[i] = [pc |-> "loaded", call |-> c, data |-> doc,
                                           seen |-> Len(race.order), wrote |-> FALSE]]
    /\ UNCHANGED <<pc, session, disk, doc, themes, current_theme, last, rt, steps, sel, cp>>

\* the rest of the setter of process i: the change and __dump_yaml
RaceDump ==
    /\ race.pc = "run"
    /\ \E i \in Procs :
         /\ race.p[i].pc = "loaded"
         /\ LET r == Setter(race.p[i].call, Held(race.p[i].data, doc))
            IN  /\ doc' = IF r.wrote THEN r.doc ELSE doc
                /\ race' = [race EXCEPT !.p[i].pc = "done", !.p[i].wrote = r.wrote,
                                        !.order = Append(@, i)]
    /\ UNCHANGED <<pc, session, disk, themes, current_theme, last, rt, steps, sel, cp>>

InitRace ==
    /\ InitCommon
    /\ pc = "store"
    /\ session \in Sessions
    /\ disk = Paths
    /\ sel = Idle /\ cp = Idle
    /\ \E dark \in AvailLists :
         doc = Doc("dark", "dark", Abs("b"), Abs("b"), <<>>,
                   <<ThemeEntry("light", FALSE, <<Abs("c")>>), ThemeEntry("dark", FALSE, dark)>>)
    /\ race = [pc |-> "run", d0 |-> doc, order |-> <<>>,
               p |-> [i \in Procs |-> [pc |-> "start"]]]

NextRace ==
    \/ RaceLoad
    \/ RaceDump

SpecRace == InitRace /\ [][NextRace]_vars

----------------------------------------------------------------------------
(* The manager while wallpaper files are deleted from outside: the catalog  *)
(* in memory keeps the paths that existed at construction.                  *)

\* a wallpaper file is deleted by the user
Unlink ==
    /\ pc = "ready"
    /\ \E p \in disk : disk' = disk \ {p}
    /\ UNCHANGED <<pc, session, doc, themes, current_theme, last, rt, steps, sel, race, cp>>

NextDisk ==
    \/ Construct
    \/ Unlink
    \/ SetWallpaper
    \/ SetTheme

SpecDisk == Init /\ [][NextDisk]_vars

----------------------------------------------------------------------------
(* The manager under add_wallpaper_to_theme and remove_wallpaper_from_theme *)
(* calls only                                                               *)

NextSync ==
    \/ Construct
    \/ AddWallpaper
    \/ RemoveWallpaper

SpecSync == Init /\ [][NextSync]_vars

----------------------------------------------------------------------------
(* ThemeManager._copy_wallpaper_to_folder: one call, step by step.  A file  *)
(* name is a base, the "_<n>" parts that follow it and the extension:       *)
(* "w_1.png" is FileName("w", <<1>>, ".png"), whether a user named the file *)
(* so or an earlier copy did.                                               *)

\* files the wallpapers directory may hold before the call
MaxFiles == 3

FileName(base, nums, suffix) == [base |-> base, nums |-> nums, suffix |-> suffix]

NoFile == FileName("", <<>>, "")

\* Path.stem: the name without its last extension
PathStem(n) == [base |-> n.base, nums |-> n.nums]

\* Path.suffix
PathSuffix(n) == n.suffix

\* f"{stem}_{counter}{suffix}"
Format(stem, counter, suffix) == FileName(stem.base, Append(stem.nums, counter), suffix)

\* str.lower on an extension
Lower(suffix) == IF suffix = ".PNG" THEN ".png" ELSE suffix

valid_extensions == {".png", ".jpg", ".jpeg", ".webp", ".bmp", ".gif"}

\* the collision test that never finds a file
PathExists_Never(dir, p) == FALSE

\* destination_path.exists()
PathExists(dir, p) == p \in dir

\* names a file of the wallpapers directory may have
DirNames ==
    {FileName("w", nums, suffix) :
        nums \in {<<>>} \cup {<<k>> : k \in 1..MaxFiles} \cup {<<1, k>> : k \in 1..MaxFiles},
        suffix \in {".png", ".PNG"}}

\* names the file to copy may have
SourceNames ==
    {FileName("w", nums, suffix) : nums \in {<<>>, <<1>>}, suffix \in {".png", ".PNG", ".txt"}}

\* the two validations and the first destination (theming.py:367-386)
CopyValidate ==
    /\ pc = "copy"
    /\ cp.pc = "start"
    /\ cp' = IF ~cp.source_exists \/ Lower(PathSuffix(cp.source_path)) \notin valid_extensions
               THEN [cp EXCEPT !.pc = "returned"]
               ELSE [cp EXCEPT !.pc = "while",
                               !.destination_path = cp.source_path,
                               !.original_destination = cp.source_path,
                               !.counter = 1]
    /\ UNCHANGED <<pc, session, disk, doc, themes, current_theme, last, rt, steps, sel, race>>

\* one turn of the while loop (theming.py:387-391)
CopyProbe ==
    /\ pc = "copy"
    /\ cp.pc = "while"
    /\ PathExists(cp.dir, cp.destination_path)
    /\ cp' = [cp EXCEPT !.destination_path =
                            Format(PathStem(cp.original_destination), cp.counter,
                                   PathSuffix(cp.original_destination)),
                        !.counter = cp.counter + 1]
    /\ UNCHANGED <<pc, session, disk, doc, themes, current_theme, last, rt, steps, sel, race>>

\* the loop is left and shutil.copy2 runs; when it fails, the destination
\* may or may not have been created (theming.py:393-404)
CopyFile ==
    /\ pc = "copy"
    /\ cp.pc = "while"
    /\ ~PathExists(cp.dir, cp.destination_path)
    /\ \E ok \in BOOLEAN, created \in BOOLEAN :
         /\ ok => created
         /\ cp' = [cp EXCEPT !.pc = "returned",
                             !.copied = ok,
                             !.ret = IF ok THEN cp.destination_path ELSE NoFile,
                             !.dir = IF created THEN cp.dir \cup {cp.destination_path}
                                                ELSE cp.dir]
    /\ UNCHANGED <<pc, session, disk, doc, themes, current_theme, last, rt, steps, sel, race>>

InitCopy ==
    /\ InitCommon
    /\ pc = "copy"
    /\ session = "x11"
    /\ disk = {}
    /\ doc = Doc(NoName, NoName, NoneStr, NoneStr, <<>>, <<>>)
    /\ sel = Idle /\ race = Idle
    /\ \E dir \in {d \in SUBSET DirNames : Cardinality(d) <= MaxFiles},
          source_path \in SourceNames, source_exists \in BOOLEAN :
         cp = [pc |-> "start", dir0 |-> dir, dir |-> dir,
               source_path |-> source_path, source_exists |-> source_exists,
               destination_path |-> NoFile, original_destination |-> NoFile,
               counter |-> 0, copied |-> FALSE, ret |-> NoFile]

NextCopy ==
    \/ CopyValidate
    \/ CopyProbe
    \/ CopyFile

SpecCopy == InitCopy /\ [][NextCopy]_vars

----------------------------------------------------------------------------
(* Callers of the Store's two pointer setters alone, in a process of any    *)
(* session type: vars.SESSION_TYPE is read from XDG_SESSION_TYPE and may be *)
(* neither "x11" nor "wayland".                                             *)

\* a session type the setters do not know
OtherSession == "tty"

\* Config._set_theme called directly
StoreSetTheme ==
    /\ pc = "store" /\ steps < MaxOps
    /\ \E name \in ThemeNames \cup {UnknownTheme}, failAt \in 0..1 :
         Commit(Config_set_theme(Machine,
                    Oracle(failAt, TRUE, TRUE, TRUE, TRUE, "", "", {}), name),
                "Config._set_theme", name, "", "store", "store")
    /\ rt' = NoRT
    /\ steps' = steps + 1

\* Config._set_wallpaper called directly
StoreSetWallpaper ==
    /\ pc = "store" /\ steps < MaxOps
    /\ \E p \in Paths, failAt \in 0..1, linkOk \in BOOLEAN :
         /\ failAt > 0 => linkOk
         /\ Commit(Config_set_wallpaper(Machine,
                       Oracle(failAt, TRUE, TRUE, TRUE, linkOk, "", "", {}), p),
                   "Config._set_wallpaper", p, "", "store", "store")
    /\ rt' = NoRT
    /\ steps' = steps + 1

\* documents with every pointer set or missing, themes in either key order
InitSetters ==
    /\ InitManager
    /\ pc = "store"
    /\ session \in Sessions \cup {OtherSession}
    /\ disk = Paths
    /\ \E xt \in {NoName, "dark"}, wt \in {NoName, "light"},
          xw \in {NoneStr, Tilde("b")}, ww \in {NoneStr, Abs("c")},
          custom \in CustomLists, dark \in AvailLists, sorted \in BOOLEAN :
         LET d == ThemeEntry("dark", FALSE, dark)
             l == ThemeEntry("light", FALSE, <<Abs("c")>>)
         IN  doc = Doc(xt, wt, xw, ww, custom, IF sorted THEN <<d, l>> ELSE <<l, d>>)

NextSetters ==
    \/ StoreSetTheme
    \/ StoreSetWallpaper

SpecSetters == InitSetters /\ [][NextSetters]_vars

----------------------------------------------------------------------------
(* Observations on the last handler *)

AddOp    == "add_wallpaper_to_theme"
RemoveOp == "remove_wallpaper_from_theme"

Happened(e) == \E i \in 1..Len(last.trace) : last.trace[i].e = e

\* the Store call "who" of the last handler raised
StoreFailed(who) ==
    \E i \in 1..Len(last.trace) : last.trace[i] = Ev("load", who, FALSE)

\* the last handler was called on a theme of the catalog
OnCatalogTheme == last.a2 \in DOMAIN last.pre.themes

----------------------------------------------------------------------------
(* C1 *)

\* C1: no theme's in-memory wallpaper list is ever empty, and a
\* remove_wallpaper_from_theme call on a theme holding exactly one wallpaper
\* returns False and leaves the in-memory lists, the persisted document (the
\* current-wallpaper pointer included) unchanged, with no Store call made.
TheoremC1 ==
    /\ \A t \in DOMAIN themes : Len(themes[t]) >= 1
    /\ (last.op = RemoveOp /\ OnCatalogTheme /\ Len(last.pre.themes[last.a2]) = 1)
          => /\ last.ret = "False"
             /\ themes = last.pre.themes
             /\ doc = last.pre.doc
             /\ last.trace = <<>>

WitnessC1 ==
    /\ last.op = RemoveOp /\ OnCatalogTheme
    /\ last.pre.themes[last.a2] = <<last.a1>>
    /\ last.ret = "False"

----------------------------------------------------------------------------
(* C2 *)

\* C2: when Config._add_wallpaper_to_theme raises during
\* add_wallpaper_to_theme, the call returns False and every theme's in-memory
\* list is what it was before the call, element for element; the document is
\* unchanged as well.
TheoremC2 ==
    (last.op = AddOp /\ StoreFailed("_add_wallpaper_to_theme"))
        => /\ last.ret = "False" /\ last.exc = "none"
           /\ themes = last.pre.themes
           /\ doc = last.pre.doc

WitnessC2 ==
    /\ last.op = AddOp /\ StoreFailed("_add_wallpaper_to_theme")
    /\ OnCatalogTheme /\ ~Contains(last.pre.themes[last.a2], last.a1)
    /\ Len(last.pre.themes[last.a2]) >= 2
    /\ last.ret = "False"

----------------------------------------------------------------------------
(* C4 *)

----------------------------------------------------------------------------
(* C3 *)

DocAvail(d, t) == DocEntry(d, t).avail

\* an add of a path the theme did not hold returned True, and the remove of
\* the same path from the same theme that followed returned True
RoundTrip == rt.stage = "removed" /\ rt.ret = "True"

Restored ==
    /\ themes[rt.theme] = rt.pre.themes[rt.theme]
    /\ DocAvail(doc, rt.theme) = DocAvail(rt.pre.doc, rt.theme)
    /\ doc.custom = rt.pre.doc.custom

\* the stored spelling of the path is in neither list of the document
NotListed ==
    /\ ~Contains(DocAvail(rt.pre.doc, rt.theme), ConfigPath(rt.path))
    /\ ~Contains(rt.pre.doc.custom, ConfigPath(rt.path))

\* C3 as stated: for a valid path not in the theme, add then remove restores
\* the theme's in-memory list, the document's list of the theme and
\* custom-wallpapers.
OriginalC3 == RoundTrip => Restored

\* C3: for a valid path that is not in the theme's in-memory list and whose
\* stored spelling is listed neither in the document's list of the theme nor
\* in custom-wallpapers, a successful add followed by a successful remove
\* restores the in-memory list, the document's list of the theme and
\* custom-wallpapers.
TheoremC3 == (RoundTrip /\ NotListed) => Restored

WitnessC3 ==
    /\ RoundTrip /\ NotListed
    /\ last.op = RemoveOp /\ Happened("dump")
    /\ Len(themes[rt.theme]) >= 1

----------------------------------------------------------------------------
(* Construction: C5, C6, C7 *)

InitOp == "__init__"

ThemePointer(d) == IF session = "x11" THEN d.xtheme ELSE d.wtheme
WallPointer(d)  == IF session = "x11" THEN d.xwall ELSE d.wwall

NoStoreFailure == \A i \in 1..Len(last.trace) : last.trace[i].e = "load" => last.trace[i].ok

CatalogLoaded == Len(last.trace) >= 1 /\ last.trace[1] = Ev("load", "get_all_themes", TRUE)

\* the paths a declared theme lists (with custom-wallpapers) that exist
Existing(d, e, dsk) ==
    {p \in dsk : \E s \in Range(d.custom) \cup Range(e.avail) : Expand(s) = p}

\* C5: in the catalog built at construction every theme has a non-empty
\* wallpaper list whose paths all exist on disk, and a declared theme none
\* of whose wallpapers exists is not in the catalog.
TheoremC5 ==
    last.op = InitOp =>
        /\ \A t \in DOMAIN themes :
              /\ Len(themes[t]) >= 1
              /\ Range(themes[t]) \subseteq last.pre.disk
        /\ \A i \in 1..Len(last.pre.doc.themes) :
              Existing(last.pre.doc, last.pre.doc.themes[i], last.pre.disk) = {}
                  => last.pre.doc.themes[i].name \notin DOMAIN themes

WitnessC5 ==
    /\ last.op = InitOp
    /\ DOMAIN themes = {"light"}
    /\ \E i \in 1..Len(last.pre.doc.themes) :
          /\ last.pre.doc.themes[i].name = "dark"
          /\ ~last.pre.doc.themes[i].null
          /\ last.pre.doc.themes[i].avail # <<>>
    /\ \E s \in Range(last.pre.doc.custom) \cup Range(DocAvail(last.pre.doc, "light")) :
          Expand(s) \notin last.pre.disk

\* C6 as stated: when the current-theme pointer names a catalog entry,
\* construction calls set_random_wallpaper exactly when the current-wallpaper
\* pointer is absent, is no member of the theme's list or does not exist;
\* otherwise it adopts the theme with no tool run and no document write.
ClaimC6 ==
    (/\ last.op = InitOp /\ NoStoreFailure /\ session \in Sessions
     /\ ThemePointer(last.pre.doc) \in DOMAIN themes)
        => LET w    == WallPointer(last.pre.doc)
               l    == themes[ThemePointer(last.pre.doc)]
               good == /\ w # NoneStr
                       /\ Contains(l, Expand(w))
                       /\ Expand(w) \in last.pre.disk
           IN  /\ Happened("set_random_wallpaper") <=> ~good
               /\ good => /\ current_theme = ThemePointer(last.pre.doc)
                          /\ pc = "ready"
                          /\ ~Happened("swww") /\ ~Happened("feh")
                          /\ doc = last.pre.doc

\* C7: construction on a document whose catalog is empty raises
\* NoThemesToInstall with no applier applied, no wallpaper tool run and the
\* document untouched; the manager is not Ready.
TheoremC7 ==
    (last.op = InitOp /\ CatalogLoaded /\ get_all_themes(last.pre.doc, last.pre.disk) = <<>>)
        => /\ pc = "failed"
           /\ last.exc = "NoThemesToInstall"
           /\ ~Happened("apply") /\ ~Happened("swww") /\ ~Happened("feh")
           /\ ~Happened("dump")
           /\ doc = last.pre.doc

WitnessC7 ==
    /\ last.op = InitOp /\ CatalogLoaded
    /\ get_all_themes(last.pre.doc, last.pre.disk) = <<>>
    /\ Len(last.pre.doc.themes) = 2
    /\ last.exc = "NoThemesToInstall"

----------------------------------------------------------------------------
(* C8 *)

SetWallpaperOp == "set_wallpaper"

\* the session's wallpaper tool ran in the last handler, with outcome ok
ToolRan(ok) ==
    \E i \in 1..Len(last.trace) :
        last.trace[i] = Ev(IF session = "wayland" THEN "swww" ELSE "feh", last.a1, ok)

\* C8: set_wallpaper(path) runs the session's tool (swww on wayland, feh on
\* x11); when the tool fails the document is unchanged; when it succeeds and
\* the call returns, the session's current-wallpaper pointer is path and no
\* other field changed; the document is written only after a tool success;
\* the outcomes of the wlr-randr and hyprctl queries change none of this.
TheoremC8 ==
    last.op = SetWallpaperOp =>
        /\ ToolRan(TRUE) \/ ToolRan(FALSE)
        /\ ToolRan(FALSE) => (doc = last.pre.doc /\ ~Happened("dump"))
        /\ (ToolRan(TRUE) /\ last.exc = "none") =>
              /\ WallPointer(doc) = Str(last.a1)
              /\ doc = __dump_yaml(IF session = "x11"
                                   THEN [last.pre.doc EXCEPT !.xwall = Str(last.a1)]
                                   ELSE [last.pre.doc EXCEPT !.wwall = Str(last.a1)])
        /\ doc # last.pre.doc => ToolRan(TRUE)

WitnessC8 ==
    /\ last.op = SetWallpaperOp /\ session = "wayland"
    /\ Ev("wlr-randr", "", FALSE) \in Range(last.trace)
    /\ Ev("hyprctl", "", FALSE) \in Range(last.trace)
    /\ ToolRan(TRUE)
    /\ WallPointer(doc) = Str(last.a1)
    /\ WallPointer(last.pre.doc) # Str(last.a1)

----------------------------------------------------------------------------
(* C9 *)

SetThemeOp == "set_theme"

\* C9 as stated: set_theme with a name that is no key of the catalog returns
\* normally, applies no theme option and leaves current_theme and the
\* document unchanged.
ClaimC9 ==
    (last.op = SetThemeOp /\ last.a1 \notin DOMAIN last.pre.themes)
        => /\ last.exc = "none"
           /\ ~Happened("apply")
           /\ current_theme = last.pre.cur
           /\ doc = last.pre.doc

----------------------------------------------------------------------------
(* C10 *)

StoreRemoveOp == "Config._remove_wallpaper_from_theme"

Without(l, s) == SelectSeq(l, LAMBDA x : x # s)

SamePointers(d, e) ==
    /\ d.xtheme = e.xtheme /\ d.wtheme = e.wtheme
    /\ d.xwall = e.xwall /\ d.wwall = e.wwall

----------------------------------------------------------------------------
(* C11, C20: the rofi list *)

\* C11 as stated: no two thumbnail tasks of one batch write the same output
\* file, whatever the elements (equal stems included).
ClaimC11 ==
    \A i, j \in 1..Len(sel.writes) :
        sel.writes[i].file = sel.writes[j].file => i = j

\* C20 as stated: every entry of the returned list after the synthetic one
\* pairs the label of an element with the thumbnail of that element's icon.
ClaimC20 ==
    sel.pc = "done" =>
        \A k \in 2..Len(sel.rofi_list) :
            \E i \in 1..Len(sel.elements) :
                /\ sel.elements[i].name = sel.rofi_list[k].name
                /\ sel.rofi_list[k].thumb = Thumbnail(sel.elements[i].icon)

----------------------------------------------------------------------------
(* C12: lost writes *)

\* the field of the document that the setter call c writes
FieldName(c) ==
    IF c.f = "_set_theme" THEN "theme"
    ELSE IF c.f = "_set_wallpaper" THEN "wallpaper"
    ELSE c.a

FieldOf(c, d) ==
    IF c.f = "_set_theme" THEN ThemePointer(d)
    ELSE IF c.f = "_set_wallpaper" THEN WallPointer(d)
    ELSE DocAvail(d, c.a)

\* both setters completed; i dumped first, j had loaded before that dump and
\* dumped last; they write different fields and the setter of i changed its
\* field
Overlapped(i, j) ==
    /\ race.pc = "run"
    /\ race.order = <<i, j>>
    /\ race.p[j].seen = 0
    /\ race.p[i].wrote /\ race.p[j].wrote
    /\ FieldName(race.p[i].call) # FieldName(race.p[j].call)
    /\ FieldOf(race.p[i].call, Setter(race.p[i].call, race.p[i].data).doc)
          # FieldOf(race.p[i].call, race.d0)

\* C12: when the load and dump steps of two setters on different fields
\* overlap, both setters complete and the document holds the update of the
\* one that dumped last only: the field written by the other is back to the
\* value it had before both ran.
TheoremC12 ==
    \A i, j \in Procs :
        Overlapped(i, j) =>
            /\ FieldOf(race.p[i].call, doc) = FieldOf(race.p[i].call, race.d0)
            /\ FieldOf(race.p[j].call, doc)
                  = FieldOf(race.p[j].call, Setter(race.p[j].call, race.d0).doc)

WitnessC12 ==
    /\ Overlapped(1, 2)
    /\ race.p[1].call.f = "_set_theme"
    /\ race.p[2].call.f = "_add_wallpaper_to_theme"
    /\ ThemePointer(doc) # race.p[1].call.a

----------------------------------------------------------------------------
(* C13: the theme option appliers *)

\* the applier events of the last handler, in the order they happened
Applies == SelectSeq(last.trace, LAMBDA e : e.e = "apply")

\* positions in the trace of the last handler
ApplyAt == {i \in 1..Len(last.trace) : last.trace[i].e = "apply"}
SetThemeAt == {i \in 1..Len(last.trace) : last.trace[i].e = "load" /\ last.trace[i].a = "_set_theme"}

\* C13: set_theme on a catalog theme tries every registered applier exactly
\* once, in registration order, whichever of them fail; Config._set_theme is
\* called after the last applier and at no other point, and unless the Store
\* itself raises the current-theme pointer of the session is the new theme.
TheoremC13 ==
    (last.op = SetThemeOp /\ last.a1 \in DOMAIN last.pre.themes) =>
        /\ Len(Applies) = Len(theme_options)
        /\ \A i \in 1..Len(theme_options) : Applies[i].a = theme_options[i]
        /\ Cardinality(SetThemeAt) = 1
        /\ \A i \in ApplyAt, j \in SetThemeAt : i < j
        /\ (\A j \in SetThemeAt : last.trace[j].ok) => ThemePointer(doc) = last.a1

WitnessC13 ==
    /\ last.op = SetThemeOp /\ last.a1 \in DOMAIN last.pre.themes
    /\ Len(Applies) = 2 /\ ~Applies[1].ok /\ Applies[2].ok
    /\ ThemePointer(last.pre.doc) # last.a1
    /\ ThemePointer(doc) = last.a1
    /\ last.exc = "none"

----------------------------------------------------------------------------
(* C14: the wallpaper after set_theme *)

\* every run of the session's wallpaper tool in the last handler succeeded
ToolsSucceeded ==
    \A i \in 1..Len(last.trace) : last.trace[i].e \in {"swww", "feh"} => last.trace[i].ok

\* the pointer w names a wallpaper of the list l
PointsInto(w, l) == w # NoneStr /\ Contains(l, Expand(w))

\* C14: when set_theme(T) returns for a catalog theme T and no wallpaper
\* tool run failed, the session's current-wallpaper pointer names a member of
\* T's wallpaper list; a pointer that named a member existing on disk is left
\* as it was and no tool runs, any other pointer is replaced by the element
\* set_random_wallpaper drew from T's list.
TheoremC14 ==
    (/\ last.op = SetThemeOp /\ last.a1 \in DOMAIN last.pre.themes
     /\ last.exc = "none" /\ ToolsSucceeded) =>
        LET w0   == WallPointer(last.pre.doc)
            l    == last.pre.themes[last.a1]
            kept == PointsInto(w0, l) /\ Expand(w0) \in last.pre.disk
        IN  /\ themes = last.pre.themes
            /\ PointsInto(WallPointer(doc), l)
            /\ kept => (WallPointer(doc) = w0 /\ ~Happened("set_random_wallpaper")
                        /\ ~Happened("swww") /\ ~Happened("feh"))
            /\ ~kept => /\ Happened("set_random_wallpaper")
                         /\ \E i \in 1..Len(last.trace) :
                               /\ last.trace[i].e \in {"swww", "feh"}
                               /\ WallPointer(doc) = Str(last.trace[i].a)

WitnessC14 ==
    /\ last.op = SetThemeOp /\ last.a1 \in DOMAIN last.pre.themes
    /\ last.exc = "none" /\ ToolsSucceeded
    /\ PointsInto(WallPointer(last.pre.doc), last.pre.themes[last.a1])
    /\ Expand(WallPointer(last.pre.doc)) \notin last.pre.disk
    /\ PointsInto(WallPointer(doc), themes[last.a1])
    /\ WallPointer(doc) # WallPointer(last.pre.doc)

----------------------------------------------------------------------------
(* C15: removing the current wallpaper *)

\* positions in the trace of the last handler
StoreRemoveAt ==
    {i \in 1..Len(last.trace) :
        last.trace[i] = Ev("load", "_remove_wallpaper_from_theme", TRUE)}
RandomAt == {i \in 1..Len(last.trace) : last.trace[i].e = "set_random_wallpaper"}

\* the removed wallpaper was the session's current wallpaper
RemovedActive ==
    /\ WallPointer(last.pre.doc) # NoneStr
    /\ Expand(WallPointer(last.pre.doc)) = last.a1

\* C15 as stated: a successful remove_wallpaper_from_theme of the current
\* wallpaper calls set_random_wallpaper after the Store call of the removal,
\* and when no tool run failed the current-wallpaper pointer then names a
\* remaining wallpaper of the theme other than the removed path; a successful
\* remove of another wallpaper leaves the pointer as it was.
ClaimC15 ==
    (last.op = RemoveOp /\ OnCatalogTheme /\ last.ret = "True") =>
        /\ RemovedActive =>
              /\ Cardinality(RandomAt) = 1
              /\ \A i \in StoreRemoveAt, j \in RandomAt : i < j
              /\ ToolsSucceeded =>
                    /\ PointsInto(WallPointer(doc), themes[last.a2])
                    /\ Expand(WallPointer(doc)) # last.a1
        /\ ~RemovedActive =>
              /\ RandomAt = {}
              /\ WallPointer(doc) = WallPointer(last.pre.doc)

----------------------------------------------------------------------------
(* C16: the catalog in memory and the catalog of the document *)

\* the catalog Config.get_all_themes builds from the document now
Rebuilt == get_all_themes(doc, disk)

\* C16 as stated: after a returned add_wallpaper_to_theme or
\* remove_wallpaper_from_theme call, each theme of ThemeManager.themes is in
\* the catalog rebuilt from the persisted document, with the same wallpaper
\* list.
ClaimC16 ==
    (pc = "ready" /\ last.op \in {AddOp, RemoveOp}) =>
        \A t \in DOMAIN themes :
            \E i \in 1..Len(Rebuilt) :
                /\ Rebuilt[i].name = t
                /\ Rebuilt[i].available_wallpapers = themes[t]

----------------------------------------------------------------------------
(* C17: the reference catalog builder *)

\* the reference: every declared theme, in document order, whose
\* custom-wallpapers followed by its own available_wallpapers (none when the
\* list is empty or null) has a path that exists, with those paths
RECURSIVE ReferenceFrom(_, _, _)
ReferenceFrom(d, dsk, i) ==
    IF i > Len(d.themes) THEN <<>>
    ELSE LET e   == d.themes[i]
             own == IF e.null THEN <<>> ELSE e.avail
             all == [k \in 1..(Len(d.custom) + Len(own)) |->
                        IF k <= Len(d.custom) THEN Expand(d.custom[k])
                        ELSE Expand(own[k - Len(d.custom)])]
             wps == SelectSeq(all, LAMBDA p : p \in dsk)
         IN  (IF wps = <<>> THEN <<>>
              ELSE <<[name |-> e.name, available_wallpapers |-> wps]>>)
             \o ReferenceFrom(d, dsk, i + 1)

\* C17 as stated: the catalog Config.get_all_themes builds at construction
\* is the reference catalog of the document, themes with an empty or null
\* available_wallpapers included.
ClaimC17 ==
    (last.op = InitOp /\ CatalogLoaded) =>
        /\ get_all_themes(last.pre.doc, last.pre.disk)
              = ReferenceFrom(last.pre.doc, last.pre.disk, 1)
        /\ (pc = "ready" =>
              \A i \in 1..Len(ReferenceFrom(last.pre.doc, last.pre.disk, 1)) :
                 LET r == ReferenceFrom(last.pre.doc, last.pre.disk, 1)[i]
                 IN  r.name \in DOMAIN themes /\ themes[r.name] = r.available_wallpapers)

----------------------------------------------------------------------------
(* C18 *)

\* the k-th numbered name of the source file
Numbered(n, k) == Format(PathStem(n), k, PathSuffix(n))

\* C18: _copy_wallpaper_to_folder is collision-safe.  The loop has made at
\* most as many turns as the directory held files, so it ends; a copy that
\* was made went to a name that was free before the call and touched no
\* other file; the name is the source's own name when that was free, and
\* otherwise the numbered name with the smallest k >= 1 that was free.
TheoremC18 ==
    /\ cp.pc = "while" => cp.counter <= Cardinality(cp.dir0) + 1
    /\ (cp.pc = "returned" /\ cp.copied) =>
          LET n == cp.source_path
              d == cp.ret
          IN  /\ d \notin cp.dir0
              /\ cp.dir = cp.dir0 \cup {d}
              /\ IF n \notin cp.dir0
                   THEN d = n
                   ELSE \E k \in 1..(Cardinality(cp.dir0) + 1) :
                          /\ d = Numbered(n, k)
                          /\ \A j \in 1..(k - 1) : Numbered(n, j) \in cp.dir0

\* a copy of "w_1.png" into a directory that holds "w_1.png" and
\* "w_1_1.png" went to "w_1_2.png"
WitnessC18 ==
    /\ cp.pc = "returned" /\ cp.copied
    /\ cp.source_path = FileName("w", <<1>>, ".png")
    /\ {cp.source_path, Numbered(cp.source_path, 1)} \subseteq cp.dir0
    /\ cp.ret = Numbered(cp.source_path, 2)

----------------------------------------------------------------------------
(* C19 *)

StoreSetThemeOp == "Config._set_theme"

StoreSetWallpaperOp == "Config._set_wallpaper"

\* the same theme entries under the same keys
SameThemes(d, e) ==
    /\ DocNames(d) = DocNames(e)
    /\ \A t \in DocNames(e) : DocEntry(d, t) = DocEntry(e, t)

\* the document fields a setter may touch in the process's session
Touched(op) ==
    IF session = "x11"
    THEN (IF op = StoreSetThemeOp THEN {"xtheme"} ELSE {"xwall"})
    ELSE IF session = "wayland"
    THEN (IF op = StoreSetThemeOp THEN {"wtheme"} ELSE {"wwall"})
    ELSE {}

\* C19: Config._set_theme and Config._set_wallpaper change, of the document,
\* only the theme pointer resp. the wallpaper pointer of the process's
\* session (x11: current-xtheme / current-xwallpaper, wayland:
\* current-wtheme / current-wwallpaper) and set it to their argument; the
\* other three pointers, custom-wallpapers and the themes stay as they were.
\* In a process of another session type they raise InvalidSession and the
\* document is not written.
TheoremC19 ==
    (last.op \in {StoreSetThemeOp, StoreSetWallpaperOp}) =>
        LET d0 == last.pre.doc
            f  == Touched(last.op)
        IN  /\ \A g \in {"xtheme", "wtheme", "xwall", "wwall", "custom"} \ f : doc[g] = d0[g]
            /\ SameThemes(doc, d0)
            /\ (session \in Sessions /\ NoStoreFailure) =>
                  /\ last.exc = "none"
                  /\ Happened("dump")
                  /\ \A g \in f : doc[g] = IF last.op = StoreSetThemeOp
                                              THEN last.a1 ELSE Str(last.a1)
            /\ session \notin Sessions =>
                  /\ doc = d0
                  /\ ~Happened("dump")
                  /\ ~Happened("ln")
                  /\ NoStoreFailure => last.exc = "InvalidSession"

\* _set_theme("light") on x11 with current-wtheme unset and the themes
\* stored out of key order
WitnessC19 ==
    /\ last.op = StoreSetThemeOp /\ session = "x11" /\ NoStoreFailure
    /\ last.a1 = "light"
    /\ last.pre.doc.xtheme = "dark" /\ last.pre.doc.wtheme = NoName
    /\ last.pre.doc.themes[1].name = "light"
    /\ doc.xtheme = "light" /\ doc # last.pre.doc

\* _set_wallpaper in a process of another session type
RaisedInvalidSession ==
    /\ last.op = StoreSetWallpaperOp /\ session = OtherSession
    /\ last.exc = "InvalidSession" /\ doc = last.pre.doc

====
